---- MODULE Spec2Model ----
(***************************************************************************)
(* Model of the adaptive routing workflow of IMSKOS (src/app.py):          *)
(* AdaptiveRAGWorkflow.execute streaming the LangGraph graph               *)
(*   START -route_question-> {retrieve | wiki_search} -> generate -> END   *)
(* with the three external providers (question router / generation chain  *)
(* on the LLM, the vector-store retriever, the Wikipedia tool) modelled as *)
(* calls in flight whose outcome (a value or an exception) is chosen by    *)
(* the environment.                                                        *)
(*                                                                         *)
(* Python strings are modelled as sequences of tokens, so that an f-string *)
(* is the concatenation of its literal parts and its formatted values.     *)
(* None is the token "None".                                               *)
(*                                                                         *)
(* The module also models the Streamlit session that calls execute         *)
(* (SpecSession) and the FastAPI scaffold of src/backend: POST             *)
(* /api/v1/query (SpecApi) and GET /health (SpecHealth).                   *)
(***************************************************************************)
EXTENDS Integers, Sequences, FiniteSets, TLC

VARIABLES
    pc,          \* where execute stands: "idle", a graph node, "END", "returned", "raised"
    inflight,    \* the provider call in flight, or "none"
    state,       \* the LangGraph GraphState of the running execution
    result,      \* the result dict of execute
    prompt,      \* the last input handed to generation_chain.invoke
    replies,     \* what each provider returned to the running execution
    events,      \* what the running execution did so far, in order: <<kind, name>>
    now,         \* time.time()
    start_time,  \* start_time of the running execution
    runs,        \* number of execute calls so far
    other,       \* the execute call of the other thread, parked while this one runs
    api,         \* the last exchanges of the backend's POST /api/v1/query
    settings,    \* the backend's cached Settings instance
    health,      \* the last reply of the backend's GET /health
    session,     \* st.session_state of the Streamlit session
    ui           \* the Streamlit script: its phase and what it showed last

vars == <<pc, inflight, state, result, prompt, replies, events, now, start_time, runs,
          other, api, settings, health, session, ui>>

\* the state of the Streamlit front end
streamlit == <<session, ui>>

\* the state of the FastAPI backend
backend == <<api, settings, health>>

\* what the steps of one execute call never touch
outside == <<other, backend, streamlit>>

----------------------------------------------------------------------------
(* Bounds *)

MaxRuns == 2        \* execute calls per behaviour
MaxBundle == 6      \* longest context bundle handed to generate_response alone
ParDocs == 2        \* longest retriever reply when two execute calls interleave

(* Program constants *)

K == 4              \* search_kwargs={"k": 4}
MaxContextDocs == 5 \* documents[:5]

----------------------------------------------------------------------------
(* Values *)

None == "None"

\* KnowledgeBaseManager.__init__: no vector store yet
NewManager == [vector_store |-> None]

NoWorkflow == [vector_store |-> None, built |-> FALSE]

\* st.session_state with no key: keys is the set of keys present, the other
\* fields hold the value of each key and are meaningful for present keys only
SessionCleared ==
    [keys |-> {},
     kb_manager |-> NewManager,
     initialized |-> FALSE,
     documents_indexed |-> FALSE,
     num_documents |-> 0,
     index_timestamp |-> "N/A",
     rag_workflow |-> NoWorkflow,
     query_history |-> <<>>]

\* the script has not run yet in this browser session
NotLoaded == [phase |-> "new", shown |-> "", query |-> "", returned |-> 0]

\* Settings() when no variable of the environment is set
DefaultSettings ==
    [app_version |-> "1.1.0",
     environment |-> "development",
     supabase_url |-> None,
     supabase_anon_key |-> None,
     astra_db_application_token |-> None,
     astra_db_id |-> None,
     groq_api_key |-> None,
     huggingface_api_key |-> None,
     upstash_redis_rest_url |-> None,
     upstash_redis_rest_token |-> None,
     s3_endpoint |-> None,
     s3_access_key |-> None,
     s3_secret_key |-> None,
     s3_bucket |-> None]

Questions == {"What is an AI agent?", "Who is Elon Musk?"}

Document(page_content) == [page_content |-> page_content]

\* passages the vector store can hold
StoreDocs == {Document(<<"chunk-a">>), Document(<<"chunk-b">>)}

\* summaries the Wikipedia tool can return
WikiTexts == {<<"Page: X">>, <<"No good Wikipedia Search Result was found">>}

\* texts the generation chain can return
GenTexts == {<<"answer-1">>, <<"answer-2">>}

RECURSIVE SeqsUpTo(_, _)
SeqsUpTo(S, n) ==
    IF n = 0 THEN {<<>>}
    ELSE LET shorter == SeqsUpTo(S, n - 1)
         IN  shorter \cup {Append(s, x) : s \in {t \in shorter : Len(t) = n - 1}, x \in S}

\* what structured_llm can hand back: the datasource of the tool call the LLM
\* made (in or out of the schema's enum), or None when it made no tool call
RouterReplies == {"vectorstore", "wiki_search", "web_search", None}

\* what the retriever can hand back: at most K passages, in rank order
RetrieverReplies == SeqsUpTo(StoreDocs, K)

\* str(e) of the exception a failing provider call raises
RouterError == "groq unavailable"
RetrieverError == "astra unavailable"
WikiError == "wikipedia unavailable"
GenerationError == "generation failed"
ValidationError == "1 validation error for RouteQuery"
AttributeError == "'NoneType' object has no attribute 'datasource'"

----------------------------------------------------------------------------
(* dict helpers *)

Get(d, key, default) == IF key \in DOMAIN d THEN d[key] ELSE default

Update(d, u) ==
    [key \in DOMAIN d \cup DOMAIN u |-> IF key \in DOMAIN u THEN u[key] ELSE d[key]]

\* str(n) of a one-digit ordinal
Digits == <<"0", "1", "2", "3", "4", "5", "6", "7", "8", "9">>

Str(n) == Digits[n + 1]

----------------------------------------------------------------------------
(* RouteQuery and IntelligentRouter *)

\* RouteQuery.datasource: Literal["vectorstore", "wiki_search"]
RouteQueryLiteral == {"vectorstore", "wiki_search"}

\* outcome of a call that returns a string or raises
Returned(v) == [raised |-> FALSE, value |-> v]
Raised(msg) == [raised |-> TRUE, value |-> msg]

\* IntelligentRouter.route, given what the LLM replied: the reply is parsed
\* into a RouteQuery (validated against the Literal), then .datasource is read
route(reply) ==
    IF reply = None THEN Raised(AttributeError)
    ELSE IF reply \notin RouteQueryLiteral THEN Raised(ValidationError)
    ELSE Returned(reply)

\* the context block generate_response builds from a list of documents (the
\* graph state only ever holds a list: both retrieval nodes return one)
RECURSIVE JoinFrom(_, _, _)
JoinFrom(parts, sep, i) ==
    IF i > Len(parts) THEN <<>>
    ELSE IF i = Len(parts) THEN parts[i]
    ELSE parts[i] \o <<sep>> \o JoinFrom(parts, sep, i + 1)

Join(sep, parts) == JoinFrom(parts, sep, 1)

\* mutant: the slice keeps one passage too many
Head5_OffByOne(documents) ==
    SubSeq(documents, 1, IF Len(documents) < MaxContextDocs + 1
                         THEN Len(documents) ELSE MaxContextDocs + 1)

Head5(documents) == SubSeq(documents, 1, IF Len(documents) < MaxContextDocs
                                          THEN Len(documents) ELSE MaxContextDocs)

FormatDocument(i, doc) == <<"Document ", Str(i + 1), ":\n">> \o doc.page_content

FormatContext(documents) ==
    LET first == Head5(documents)
    IN  Join("\n\n", [j \in 1..Len(first) |-> FormatDocument(j - 1, first[j])])

----------------------------------------------------------------------------
(* AdaptiveRAGWorkflow: nodes and graph *)

\* mutant: the node keeps only the best-ranked passage
retrieve_TopOne(st, documents) ==
    [documents |-> IF documents = <<>> THEN <<>> ELSE <<documents[1]>>,
     question |-> st.question, route |-> "vectorstore"]

retrieve(st, documents) ==
    [documents |-> documents, question |-> st.question, route |-> "vectorstore"]

WikiPlaceholder(e) ==
    Document(<<"Wikipedia search returned no results for this query. Error: ", e>>)

\* mutant: the summary is appended to the bundle already in the state
wiki_search_Appends(st, wiki_results) ==
    [documents |-> Get(st, "documents", <<wiki_results>>) \o <<wiki_results>>,
     question |-> st.question, route |-> "wikipedia"]

wiki_search(st, wiki_results) ==
    [documents |-> <<wiki_results>>, question |-> st.question, route |-> "wikipedia"]

\* mutant: the node labels the text of the provider
generate_Labels(st, generation) ==
    [question |-> st.question, documents |-> st.documents,
     generation |-> <<"Answer: ">> \o generation, route |-> Get(st, "route", "unknown")]

generate(st, generation) ==
    [question |-> st.question, documents |-> st.documents,
     generation |-> generation, route |-> Get(st, "route", "unknown")]

route_question(source) ==
    IF source = "wiki_search" THEN "wiki_search" ELSE "vectorstore"

\* build_graph: the conditional edges out of START and the plain edges

\* mutant: the wiki_search label is wired straight to the generate node
ConditionalEdges_SkipRetrieval ==
    [wiki_search |-> "generate", vectorstore |-> "retrieve"]

\* mutant: the two labels are wired to each other's node
ConditionalEdges_Swapped ==
    [wiki_search |-> "retrieve", vectorstore |-> "wiki_search"]

ConditionalEdges == [wiki_search |-> "wiki_search", vectorstore |-> "retrieve"]

\* mutant: the two retrieval nodes are chained instead of being alternatives
Edges_Chained ==
    [retrieve |-> "wiki_search", wiki_search |-> "generate", generate |-> "END"]

Edges == [retrieve |-> "generate", wiki_search |-> "generate", generate |-> "END"]

----------------------------------------------------------------------------
(* AdaptiveRAGWorkflow.execute *)

InitialResult ==
    [route |-> None, documents |-> <<>>, generation |-> <<>>, execution_time |-> 0]

\* the body of the loop over the streamed outputs
Record(res, key, value) ==
    IF key = "generate" THEN
        [res EXCEPT !.generation = Get(value, "generation", <<>>),
                    !.route = Get(value, "route", "unknown"),
                    !.documents = Get(value, "documents", <<>>)]
    ELSE IF key \in {"retrieve", "wiki_search"} THEN
        [res EXCEPT !.route = Get(value, "route", key),
                    !.documents = Get(value, "documents", <<>>)]
    ELSE res

\* the except clause

\* mutant: the handler reports the error text but leaves the route alone
execute_except_KeepsRoute(res, e) ==
    [res EXCEPT !.generation = <<"Error executing query: ", e>>]

\* mutant: the handler starts over from an empty result
execute_except_DropsDocuments(res, e) ==
    [res EXCEPT !.generation = <<"Error executing query: ", e>>,
                !.route = "error",
                !.documents = <<>>]

execute_except(res, e) ==
    [res EXCEPT !.generation = <<"Error executing query: ", e>>,
                !.route = "error"]

\* the part of execute the try statement covers: the whole stream

\* mutant: the try statement starts after the first step of the stream
TryBlock_AfterStart == {"retrieve", "wiki_search", "generate"}

TryBlock == {"START", "retrieve", "wiki_search", "generate"}

NoPrompt == [context |-> <<>>, question |-> None]

NoReply == "no reply"

NoReplies ==
    [question_router |-> NoReply, retriever |-> <<>>, wiki |-> <<>>,
     generation_chain |-> <<>>]

\* the locals of an execute call that has not started
IdleExecution ==
    [pc |-> "idle", inflight |-> "none", state |-> [question |-> None],
     result |-> InitialResult, prompt |-> NoPrompt, replies |-> NoReplies,
     events |-> <<>>, start_time |-> 0]

Reply(provider, value) == replies' = [replies EXCEPT ![provider] = value]

Log(evs) == events' = events \o evs

\* an exception leaves the node running at pc: the stream stops there
Throw(e) ==
    /\ inflight' = "none"
    /\ IF pc \in TryBlock
       THEN /\ result' = execute_except(result, e)
            /\ pc' = "END"
       ELSE /\ result' = result
            /\ pc' = "raised"
    /\ UNCHANGED <<state, prompt, start_time, runs>>

\* a node finished: its output is merged into the graph state, streamed to
\* execute, recorded there, and the graph moves along the node's edge
Yield(node, output) ==
    /\ inflight' = "none"
    /\ state' = Update(state, output)
    /\ result' = Record(result, node, output)
    /\ pc' = Edges[node]
    /\ UNCHANGED <<prompt, start_time, runs>>

Execute(question) ==
    /\ UNCHANGED outside
    /\ pc \in {"idle", "returned"}
    /\ runs < MaxRuns
    /\ runs' = runs + 1
    /\ state' = [question |-> question]
    /\ result' = InitialResult
    /\ start_time' = now
    /\ prompt' = NoPrompt
    /\ replies' = NoReplies
    /\ events' = <<>>
    /\ pc' = "START"
    /\ UNCHANGED <<inflight, now>>

RouteCall ==
    /\ UNCHANGED outside
    /\ pc = "START" /\ inflight = "none"
    /\ inflight' = "question_router"
    /\ Log(<< <<"enter", "route_question">>, <<"call", "question_router">> >>)
    /\ UNCHANGED <<pc, state, result, prompt, replies, now, start_time, runs>>

RouteReturn(reply) ==
    /\ UNCHANGED outside
    /\ pc = "START" /\ inflight = "question_router"
    /\ now' = now + 1
    /\ Reply("question_router", reply)
    /\ LET r == route(reply)
       IN  IF r.raised
           THEN /\ Throw(r.value)
                /\ Log(<< <<"raise", "question_router">> >>)
           ELSE /\ inflight' = "none"
                /\ pc' = ConditionalEdges[route_question(r.value)]
                /\ Log(<< <<"return", "question_router">>,
                          <<"exit", "route_question">> >>)
                /\ UNCHANGED <<state, result, prompt, start_time, runs>>

RouteRaise ==
    /\ UNCHANGED outside
    /\ pc = "START" /\ inflight = "question_router"
    /\ now' = now + 1
    /\ Throw(RouterError)
    /\ UNCHANGED replies
    /\ Log(<< <<"raise", "question_router">> >>)

RetrieveCall ==
    /\ UNCHANGED outside
    /\ pc = "retrieve" /\ inflight = "none"
    /\ inflight' = "retriever"
    /\ Log(<< <<"enter", "retrieve">>, <<"call", "retriever">> >>)
    /\ UNCHANGED <<pc, state, result, prompt, replies, now, start_time, runs>>

RetrieveReturn(documents) ==
    /\ UNCHANGED outside
    /\ pc = "retrieve" /\ inflight = "retriever"
    /\ now' = now + 1
    /\ Reply("retriever", documents)
    /\ Yield("retrieve", retrieve(state, documents))
    /\ Log(<< <<"return", "retriever">>, <<"exit", "retrieve">> >>)

\* mutant: a failed retrieval is attempted again
RetrieveRaise_Retries ==
    /\ UNCHANGED outside
    /\ pc = "retrieve" /\ inflight = "retriever"
    /\ now' = now + 1
    /\ inflight' = "none"
    /\ Log(<< <<"raise", "retriever">> >>)
    /\ UNCHANGED <<pc, state, result, prompt, replies, start_time, runs>>

\* mutant: a failed retrieval degrades to a placeholder passage
RetrieveRaise_Degrades ==
    /\ UNCHANGED outside
    /\ pc = "retrieve" /\ inflight = "retriever"
    /\ now' = now + 1
    /\ Yield("retrieve", retrieve(state, <<WikiPlaceholder(RetrieverError)>>))
    /\ UNCHANGED replies
    /\ Log(<< <<"raise", "retriever">>, <<"exit", "retrieve">> >>)

RetrieveRaise ==
    /\ UNCHANGED outside
    /\ pc = "retrieve" /\ inflight = "retriever"
    /\ now' = now + 1
    /\ Throw(RetrieverError)
    /\ UNCHANGED replies
    /\ Log(<< <<"raise", "retriever">> >>)

WikiCall ==
    /\ UNCHANGED outside
    /\ pc = "wiki_search" /\ inflight = "none"
    /\ inflight' = "wiki"
    /\ Log(<< <<"enter", "wiki_search">>, <<"call", "wiki">> >>)
    /\ UNCHANGED <<pc, state, result, prompt, replies, now, start_time, runs>>

WikiReturn(docs) ==
    /\ UNCHANGED outside
    /\ pc = "wiki_search" /\ inflight = "wiki"
    /\ now' = now + 1
    /\ Reply("wiki", docs)
    /\ Yield("wiki_search", wiki_search(state, Document(docs)))
    /\ Log(<< <<"return", "wiki">>, <<"exit", "wiki_search">> >>)

\* mutant: the lookup's exception leaves the node
WikiRaise_Propagates ==
    /\ UNCHANGED outside
    /\ pc = "wiki_search" /\ inflight = "wiki"
    /\ now' = now + 1
    /\ Throw(WikiError)
    /\ Log(<< <<"raise", "wiki">> >>)
    /\ UNCHANGED replies

\* the lookup raised: wiki_search catches it and goes on with a placeholder
WikiRaise ==
    /\ UNCHANGED outside
    /\ pc = "wiki_search" /\ inflight = "wiki"
    /\ now' = now + 1
    /\ Yield("wiki_search", wiki_search(state, WikiPlaceholder(WikiError)))
    /\ UNCHANGED replies
    /\ Log(<< <<"raise", "wiki">>, <<"exit", "wiki_search">> >>)

GenerateCall ==
    /\ UNCHANGED outside
    /\ pc = "generate" /\ inflight = "none"
    /\ IF "documents" \in DOMAIN state
       THEN /\ inflight' = "generation_chain"
            /\ prompt' = [context |-> FormatContext(state.documents),
                          question |-> state.question]
            /\ Log(<< <<"enter", "generate">>, <<"call", "generation_chain">> >>)
            /\ UNCHANGED <<pc, state, result, replies, now, start_time, runs>>
       ELSE /\ Throw("'documents'")
            /\ Log(<< <<"enter", "generate">> >>)
            /\ UNCHANGED <<now, replies>>

GenerateReturn(response) ==
    /\ UNCHANGED outside
    /\ pc = "generate" /\ inflight = "generation_chain"
    /\ now' = now + 1
    /\ Reply("generation_chain", response)
    /\ Yield("generate", generate(state, response))
    /\ Log(<< <<"return", "generation_chain">>, <<"exit", "generate">> >>)

\* mutant: a failed generation call is attempted again
GenerateRaise_Retries ==
    /\ UNCHANGED outside
    /\ pc = "generate" /\ inflight = "generation_chain"
    /\ now' = now + 1
    /\ inflight' = "none"
    /\ Log(<< <<"raise", "generation_chain">> >>)
    /\ UNCHANGED <<pc, state, result, prompt, replies, start_time, runs>>

GenerateRaise ==
    /\ UNCHANGED outside
    /\ pc = "generate" /\ inflight = "generation_chain"
    /\ now' = now + 1
    /\ Throw(GenerationError)
    /\ UNCHANGED replies
    /\ Log(<< <<"raise", "generation_chain">> >>)

\* the stream is exhausted or the except clause ran: time the call and return
Finish ==
    /\ UNCHANGED outside
    /\ pc = "END"
    /\ result' = [result EXCEPT !.execution_time = now - start_time]
    /\ pc' = "returned"
    /\ UNCHANGED <<inflight, state, prompt, replies, events, now, start_time, runs>>

Init ==
    /\ pc = "idle"
    /\ inflight = "none"
    /\ state = [question |-> None]
    /\ result = InitialResult
    /\ prompt = NoPrompt
    /\ replies = NoReplies
    /\ events = <<>>
    /\ now = 0
    /\ start_time = 0
    /\ runs = 0
    /\ other = IdleExecution
    /\ api = <<>>
    /\ settings = DefaultSettings
    /\ health = <<>>
    /\ session = SessionCleared
    /\ ui = NotLoaded

Next ==
    \/ \E question \in Questions : Execute(question)
    \/ RouteCall
    \/ \E reply \in RouterReplies : RouteReturn(reply)
    \/ RouteRaise
    \/ RetrieveCall
    \/ \E documents \in RetrieverReplies : RetrieveReturn(documents)
    \/ RetrieveRaise
    \/ WikiCall
    \/ \E docs \in WikiTexts : WikiReturn(docs)
    \/ WikiRaise
    \/ GenerateCall
    \/ \E response \in GenTexts : GenerateReturn(response)
    \/ GenerateRaise
    \/ Finish

Spec == Init /\ [][Next]_vars

\* the steps of a running execute call: its own sequential code, and the
\* outcome (a value or an exception) of the provider call it waits for
Progress ==
    \/ RouteCall
    \/ \E reply \in RouterReplies : RouteReturn(reply)
    \/ RouteRaise
    \/ RetrieveCall
    \/ \E documents \in RetrieverReplies : RetrieveReturn(documents)
    \/ RetrieveRaise
    \/ WikiCall
    \/ \E docs \in WikiTexts : WikiReturn(docs)
    \/ WikiRaise
    \/ GenerateCall
    \/ \E response \in GenTexts : GenerateReturn(response)
    \/ GenerateRaise
    \/ Finish

\* execute runs to completion once called, provided every provider call it
\* makes comes back; nothing forces a caller to call execute
LiveSpec == Init /\ [][Next]_vars /\ WF_vars(Progress)

\* Two execute calls on the same workflow object, one per thread. Everything
\* an execute call writes is a local of the call (inputs, result, start_time,
\* the graph state of its own stream); the workflow object (app, retriever,
\* wiki, router) is only read. The variables hold the locals of the thread
\* that runs, `other` those of the thread that waits; the clock is shared.
Locals ==
    [pc |-> pc, inflight |-> inflight, state |-> state, result |-> result,
     prompt |-> prompt, replies |-> replies, events |-> events,
     start_time |-> start_time]

\* mutant: the result dict is kept on the workflow object, shared by the calls
Swap_SharedResult ==
    /\ pc' = other.pc
    /\ inflight' = other.inflight
    /\ state' = other.state
    /\ prompt' = other.prompt
    /\ replies' = other.replies
    /\ events' = other.events
    /\ start_time' = other.start_time
    /\ other' = Locals
    /\ UNCHANGED <<result, now, runs, backend, streamlit>>

\* the scheduler switches to the other thread
Swap ==
    /\ pc' = other.pc
    /\ inflight' = other.inflight
    /\ state' = other.state
    /\ result' = other.result
    /\ prompt' = other.prompt
    /\ replies' = other.replies
    /\ events' = other.events
    /\ start_time' = other.start_time
    /\ other' = Locals
    /\ UNCHANGED <<now, runs, backend, streamlit>>

\* a thread calls execute once
ExecuteOnce(question) ==
    /\ pc = "idle"
    /\ Execute(question)

NextPar ==
    \/ \E question \in Questions : ExecuteOnce(question)
    \/ RouteCall
    \/ \E reply \in RouterReplies : RouteReturn(reply)
    \/ RouteRaise
    \/ RetrieveCall
    \/ \E documents \in SeqsUpTo(StoreDocs, ParDocs) : RetrieveReturn(documents)
    \/ RetrieveRaise
    \/ WikiCall
    \/ \E docs \in WikiTexts : WikiReturn(docs)
    \/ WikiRaise
    \/ GenerateCall
    \/ \E response \in GenTexts : GenerateReturn(response)
    \/ GenerateRaise
    \/ Finish
    \/ Swap

SpecPar == Init /\ [][NextPar]_vars

\* generate_response on its own: the generate node entered with any bundle of
\* at most MaxBundle passages in the graph state
InitGen ==
    \E question \in Questions, bundle \in SeqsUpTo(StoreDocs, MaxBundle) :
        /\ pc = "generate"
        /\ inflight = "none"
        /\ state = retrieve([question |-> question], bundle)
        /\ result = Record(InitialResult, "retrieve", state)
        /\ prompt = NoPrompt
        /\ replies = [NoReplies EXCEPT !.question_router = "vectorstore",
                                       !.retriever = bundle]
        /\ events = <<>>
        /\ now = 0
        /\ start_time = 0
        /\ runs = 1
        /\ other = IdleExecution
        /\ api = <<>>
        /\ settings = DefaultSettings
        /\ health = <<>>
        /\ session = SessionCleared
        /\ ui = NotLoaded

NextGen ==
    \/ GenerateCall
    \/ \E response \in GenTexts : GenerateReturn(response)
    \/ GenerateRaise
    \/ Finish

SpecGen == InitGen /\ [][NextGen]_vars

----------------------------------------------------------------------------
(* Backend: POST /api/v1/query (src/backend/app/api/v1/query.py and         *)
(* src/backend/app/models/schemas.py)                                       *)
(*                                                                          *)
(* A query text is modelled by its length; a temperature by its tenths and  *)
(* a similarity score by its hundredths; routing_reason is a sequence of    *)
(* characters, so that "contains" is a real substring test.                 *)

MinQueryLen == 1
MaxQueryLen == 2000
MinTopK == 1
MaxTopK == 20
MaxTemperature == 20
MockElapsedMs == 75

Absent == "absent"

\* QuerySource
QuerySourceValues == {"auto", "vector", "wikipedia", "web"}

\* the characters of QuerySource.value
SourceChars ==
    [auto |-> <<"a", "u", "t", "o">>,
     vector |-> <<"v", "e", "c", "t", "o", "r">>,
     wikipedia |-> <<"w", "i", "k", "i", "p", "e", "d", "i", "a">>,
     web |-> <<"w", "e", "b">>]

\* QueryOptions()
DefaultOptions == [given |-> FALSE, top_k |-> 5, temperature |-> 0, hyde |-> FALSE]

\* JSON bodies a client can post
QueryLengths == {0, 1, 2000, 2001}

OptionChoices ==
    {DefaultOptions,
     [given |-> TRUE, top_k |-> 10, temperature |-> 5, hyde |-> TRUE],
     [given |-> TRUE, top_k |-> 21, temperature |-> 5, hyde |-> FALSE],
     [given |-> TRUE, top_k |-> 1, temperature |-> 21, hyde |-> FALSE]}

Requests ==
    [query : QueryLengths,
     user_id : {Absent, "user-123"},
     source : {Absent, "auto", "vector", "wikipedia", "web", "graph"},
     options : OptionChoices]

\* uuid.uuid4().hex[:8]
Uuids == {"0a1b2c3d", "9f8e7d6c"}

\* int((time.time() - start_time) * 1000): the two readings of the clock are
\* taken in order, a few statements apart, on a clock that is not set back
\* in between
HandlerMs == {0, 1}

\* mutant: min_length is dropped from the query field
ValidQuery_AllowsEmpty(n) == n <= MaxQueryLen

\* QueryRequest.query: min_length=1, max_length=2000
ValidQuery(n) == MinQueryLen <= n /\ n <= MaxQueryLen

ValidSource(source) == source = Absent \/ source \in QuerySourceValues

ValidOptions(o) ==
    ~o.given \/ /\ MinTopK <= o.top_k /\ o.top_k <= MaxTopK
                /\ 0 <= o.temperature /\ o.temperature <= MaxTemperature

\* does the body validate as a QueryRequest
Validates(json) ==
    ValidQuery(json.query) /\ ValidSource(json.source) /\ ValidOptions(json.options)

\* the QueryRequest built from a valid body, defaults filled in
QueryRequest(json) ==
    [query |-> json.query,
     user_id |-> IF json.user_id = Absent THEN None ELSE json.user_id,
     source |-> IF json.source = Absent THEN "auto" ELSE json.source,
     options |-> IF json.options.given THEN json.options ELSE DefaultOptions]

\* f"mock: scaffold route to {source} (demo)"
RoutingReason(source) ==
    <<"m", "o", "c", "k", ":", " ", "s", "c", "a", "f", "f", "o", "l", "d", " ", "r", "o", "u", "t", "e", " ", "t", "o", " ">>
    \o SourceChars[source] \o
    <<" ", "(", "d", "e", "m", "o", ")">>

MOCK_RESPONSE ==
    [id |-> <<"mock-query-0001">>,
     response |-> "This is a deterministic mock answer from IMSKOS scaffold.",
     sources |-> << [source_id |-> "doc-1", similarity_score |-> 92,
                     snippet |-> "Example matched text...",
                     url |-> "/storage/docs/doc1.pdf"] >>,
     metrics |-> [elapsed_ms |-> 75, tokens |-> 34, embedding_ms |-> 15,
                  retrieval_ms |-> 35, llm_ms |-> 25],
     routing_reason |->
        <<"m", "o", "c", "k", ":", " ", "s", "c", "a", "f", "f", "o", "l", "d", " ", "r", "o", "u", "t", "e", " ", "t", "o", " ", "v", "e", "c", "t", "o", "r", " ", "(", "d", "e", "m", "o", ")">>]

\* mutant: the handler returns the canned response as it is
execute_query_ReturnsMock(request, uuid, ms) == MOCK_RESPONSE

\* mutant: the handler answers with the query it was given
execute_query_Echoes(request, uuid, ms) ==
    [id |-> <<"query-", uuid>>,
     response |-> "You asked a question.",
     sources |-> MOCK_RESPONSE.sources,
     metrics |-> [MOCK_RESPONSE.metrics EXCEPT !.elapsed_ms = ms + MockElapsedMs],
     routing_reason |-> RoutingReason(request.source)]

\* mutant: the routing reason is copied from the canned response
execute_query_CannedReason(request, uuid, ms) ==
    [id |-> <<"query-", uuid>>,
     response |-> MOCK_RESPONSE.response,
     sources |-> MOCK_RESPONSE.sources,
     metrics |-> [MOCK_RESPONSE.metrics EXCEPT !.elapsed_ms = ms + MockElapsedMs],
     routing_reason |-> MOCK_RESPONSE.routing_reason]

\* mutant: the mock processing time is not added to the measured time
execute_query_NoMockTime(request, uuid, ms) ==
    [id |-> <<"query-", uuid>>,
     response |-> MOCK_RESPONSE.response,
     sources |-> MOCK_RESPONSE.sources,
     metrics |-> [MOCK_RESPONSE.metrics EXCEPT !.elapsed_ms = ms],
     routing_reason |-> RoutingReason(request.source)]

execute_query(request, uuid, ms) ==
    [id |-> <<"query-", uuid>>,
     response |-> MOCK_RESPONSE.response,
     sources |-> MOCK_RESPONSE.sources,
     metrics |-> [elapsed_ms |-> ms + MockElapsedMs,
                  tokens |-> MOCK_RESPONSE.metrics.tokens,
                  embedding_ms |-> MOCK_RESPONSE.metrics.embedding_ms,
                  retrieval_ms |-> MOCK_RESPONSE.metrics.retrieval_ms,
                  llm_ms |-> MOCK_RESPONSE.metrics.llm_ms],
     routing_reason |-> RoutingReason(request.source)]

\* the reply to a body that does not validate
UnprocessableEntity == [detail |-> "validation error"]

\* one POST /api/v1/query: the body is validated, then handled
Exchange(json, uuid, ms) ==
    IF Validates(json)
    THEN [request |-> json, status |-> 200,
          body |-> execute_query(QueryRequest(json), uuid, ms)]
    ELSE [request |-> json, status |-> 422, body |-> UnprocessableEntity]

\* api records a pair of exchanges, so that two replies can be compared
PostQuery(json, uuid, ms) ==
    /\ Len(api) < 2
    /\ api' = Append(api, Exchange(json, uuid, ms))
    /\ UNCHANGED <<pc, inflight, state, result, prompt, replies, events, now,
                   start_time, runs, other, settings, health, streamlit>>

\* the handler keeps nothing from one request to the next: any pair of
\* requests can follow the recorded one
Forget ==
    /\ Len(api) = 2
    /\ api' = <<>>
    /\ UNCHANGED <<pc, inflight, state, result, prompt, replies, events, now,
                   start_time, runs, other, settings, health, streamlit>>

NextApi ==
    \/ \E json \in Requests, uuid \in Uuids, ms \in HandlerMs : PostQuery(json, uuid, ms)
    \/ Forget

SpecApi == Init /\ [][NextApi]_vars

----------------------------------------------------------------------------
(* Backend: GET /health (src/backend/app/api/v1/health.py) over the        *)
(* Settings of src/backend/app/core/config.py.                             *)

\* what the environment can hold for a credential: nothing, an empty value,
\* a value
CredentialValues == {None, "", "secret"}

\* APP_VERSION of the environment overrides the default of app_version
Versions == {"1.1.0", "2.0.0"}

\* datetime.utcnow()
Timestamps == {"2026-01-01T00:00:00"}

\* Settings(): every field is read from the environment
SettingsSpace ==
    [app_version : Versions,
     environment : {"development"},
     supabase_url : CredentialValues,
     supabase_anon_key : CredentialValues,
     astra_db_application_token : CredentialValues,
     astra_db_id : CredentialValues,
     groq_api_key : CredentialValues,
     huggingface_api_key : CredentialValues,
     upstash_redis_rest_url : CredentialValues,
     upstash_redis_rest_token : CredentialValues,
     s3_endpoint : CredentialValues,
     s3_access_key : CredentialValues,
     s3_secret_key : CredentialValues,
     s3_bucket : {None, "secret"}]

\* the truth value of an Optional[str]
Truthy(value) == value # None /\ value # ""

\* mutant: a service is mock only when all of its credentials are missing
get_mock_status_NotAny(s) ==
    [supabase |-> ~(Truthy(s.supabase_url) \/ Truthy(s.supabase_anon_key)),
     astra_db |-> ~(Truthy(s.astra_db_application_token) \/ Truthy(s.astra_db_id)),
     groq |-> ~Truthy(s.groq_api_key),
     huggingface |-> ~Truthy(s.huggingface_api_key),
     redis |-> ~(Truthy(s.upstash_redis_rest_url) \/ Truthy(s.upstash_redis_rest_token)),
     s3 |-> ~(Truthy(s.s3_endpoint) \/ Truthy(s.s3_access_key) \/ Truthy(s.s3_secret_key))]

get_mock_status(s) ==
    [supabase |-> ~(Truthy(s.supabase_url) /\ Truthy(s.supabase_anon_key)),
     astra_db |-> ~(Truthy(s.astra_db_application_token) /\ Truthy(s.astra_db_id)),
     groq |-> ~Truthy(s.groq_api_key),
     huggingface |-> ~Truthy(s.huggingface_api_key),
     redis |-> ~(Truthy(s.upstash_redis_rest_url) /\ Truthy(s.upstash_redis_rest_token)),
     s3 |-> ~(Truthy(s.s3_endpoint) /\ Truthy(s.s3_access_key) /\ Truthy(s.s3_secret_key))]

health_check(s, timestamp) ==
    [status |-> "healthy",
     version |-> s.app_version,
     environment |-> s.environment,
     mock_mode |-> get_mock_status(s),
     timestamp |-> timestamp]

\* one GET /health; health keeps the last reply
HealthCheck(timestamp) ==
    /\ health' = <<health_check(settings, timestamp)>>
    /\ UNCHANGED <<pc, inflight, state, result, prompt, replies, events, now,
                   start_time, runs, other, api, settings, streamlit>>

\* the process starts in some environment; get_settings caches the Settings
\* it builds, so they stay as they are for the life of the process
InitHealth ==
    /\ pc = "idle"
    /\ inflight = "none"
    /\ state = [question |-> None]
    /\ result = InitialResult
    /\ prompt = NoPrompt
    /\ replies = NoReplies
    /\ events = <<>>
    /\ now = 0
    /\ start_time = 0
    /\ runs = 0
    /\ other = IdleExecution
    /\ api = <<>>
    /\ settings \in SettingsSpace
    /\ health = <<>>
    /\ session = SessionCleared
    /\ ui = NotLoaded

NextHealth == \E timestamp \in Timestamps : HealthCheck(timestamp)

SpecHealth == InitHealth /\ [][NextHealth]_vars

----------------------------------------------------------------------------
(* Streamlit session (src/app.py: main, initialize_system,                 *)
(* render_indexing_tab, render_query_tab, render_analytics_tab).           *)
(* Every interaction reruns the script from the top; a script run is taken *)
(* to its end before the next interaction is handled. The run that         *)
(* executes a query spans the steps of execute; every other run is one     *)
(* step.                                                                   *)

\* the text of the query box; "" is the empty box
SessionQueries == {"", "What is an AI agent?"}

\* len(doc_splits); 0 when no URL could be loaded
Chunks == {0, 12}

\* datetime.now().strftime("%Y-%m-%d %H:%M:%S")
IndexTimes == {"2026-01-01 10:00:00", "2026-01-01 11:00:00"}

\* the Cassandra vector store create_vector_store builds
TableName == "intelligent_knowledge_base"

\* the calls of the indexing handler that can raise
IndexStages == {"load_and_process_documents", "create_vector_store", "add_documents"}

\* what the script shows at the end of a run
InitOk == "System initialized successfully!"
InitFailed == "Initialization failed"
NoUrls == "Please provide at least one URL"
IndexOk == "Indexing Complete!"
IndexFailed == "Indexing failed"
QueryResults == "Query Results"
NoneTypeError == "Query execution failed: 'NoneType' object has no attribute 'as_retriever'"
BuildError == "Query execution failed: workflow not built"

\* everything but the Streamlit front end
elsewhere ==
    <<pc, inflight, state, result, prompt, replies, events, now, start_time, runs,
      other, backend>>

In(key) == key \in session.keys

\* st.session_state.get('documents_indexed', False)
DocumentsIndexed == In("documents_indexed") /\ session.documents_indexed

Show(phase, message) == ui' = [ui EXCEPT !.phase = phase, !.shown = message]

\* initialize_system: ok is whether the configuration is complete and the
\* components come up; when it is not, the script stops with nothing stored
initialize_system(ss, ok) ==
    IF "initialized" \in ss.keys \/ ~ok THEN ss
    ELSE [ss EXCEPT !.keys = @ \cup {"kb_manager", "router", "initialized",
                                     "documents_indexed"},
                    !.kb_manager = NewManager,
                    !.initialized = TRUE,
                    !.documents_indexed = FALSE]

\* a run of the script with no button clicked: the first load of the page,
\* or another widget changed
Run(ok) ==
    /\ ui.phase \in {"new", "waiting"}
    /\ session' = initialize_system(session, ok)
    /\ Show("waiting", IF In("initialized") THEN ""
                       ELSE IF ok THEN InitOk ELSE InitFailed)
    /\ UNCHANGED elsewhere

\* mutant: Reset System keeps the query history
ClickReset_KeepsHistory(ok) ==
    /\ ui.phase = "waiting"
    /\ session' = initialize_system(
                      [SessionCleared EXCEPT
                          !.keys = session.keys \cap {"query_history"},
                          !.query_history = session.query_history], ok)
    /\ ui' = [phase |-> "waiting", shown |-> IF ok THEN InitOk ELSE InitFailed,
              query |-> "", returned |-> ui.returned]
    /\ UNCHANGED elsewhere

\* Reset System: every key is deleted, then st.rerun() runs the script again
ClickReset(ok) ==
    /\ ui.phase = "waiting"
    /\ session' = initialize_system(SessionCleared, ok)
    /\ ui' = [phase |-> "waiting", shown |-> IF ok THEN InitOk ELSE InitFailed,
              query |-> "", returned |-> 0]
    /\ UNCHANGED elsewhere

\* Index Documents with an empty URL box
IndexNoUrls ==
    /\ ui.phase = "waiting" /\ In("initialized")
    /\ Show("waiting", NoUrls)
    /\ UNCHANGED <<session, elsewhere>>

\* Index Documents: loading, create_vector_store when the manager has no
\* store, add_documents, then the three keys are stored
IndexSucceeds(chunks, timestamp) ==
    /\ ui.phase = "waiting" /\ In("initialized")
    /\ session' = [session EXCEPT
                      !.kb_manager.vector_store = TableName,
                      !.keys = @ \cup {"documents_indexed", "num_documents",
                                       "index_timestamp"},
                      !.documents_indexed = TRUE,
                      !.num_documents = chunks,
                      !.index_timestamp = timestamp]
    /\ Show("waiting", IndexOk)
    /\ UNCHANGED elsewhere

\* mutant: the handler marks the documents as indexed before it indexes them
IndexFails_MarksIndexed(stage) ==
    /\ ui.phase = "waiting" /\ In("initialized")
    /\ stage = "create_vector_store" => session.kb_manager.vector_store = None
    /\ session' = [session EXCEPT
                      !.kb_manager.vector_store =
                          IF stage = "add_documents" THEN TableName ELSE @,
                      !.documents_indexed = TRUE]
    /\ Show("waiting", IndexFailed)
    /\ UNCHANGED elsewhere

\* mutant: a failed run withdraws the earlier indexing
IndexFails_Withdraws(stage) ==
    /\ ui.phase = "waiting" /\ In("initialized")
    /\ stage = "create_vector_store" => session.kb_manager.vector_store = None
    /\ session' = [session EXCEPT
                      !.kb_manager.vector_store =
                          IF stage = "add_documents" THEN TableName ELSE @,
                      !.keys = @ \ {"num_documents", "index_timestamp"},
                      !.documents_indexed = FALSE,
                      !.num_documents = 0,
                      !.index_timestamp = "N/A"]
    /\ Show("waiting", IndexFailed)
    /\ UNCHANGED elsewhere

\* Index Documents where the call named by stage raises: the except clause
\* shows the error; create_vector_store is called only when the manager has
\* no store, and has been called when add_documents raises
IndexFails(stage) ==
    /\ ui.phase = "waiting" /\ In("initialized")
    /\ stage = "create_vector_store" => session.kb_manager.vector_store = None
    /\ session' = [session EXCEPT
                      !.kb_manager.vector_store =
                          IF stage = "add_documents" THEN TableName ELSE @]
    /\ Show("waiting", IndexFailed)
    /\ UNCHANGED elsewhere

\* Execute Query when no workflow is cached and AdaptiveRAGWorkflow(...) or
\* build_graph raises: vector_store.as_retriever raises on a missing store
QueryBuildFails ==
    /\ ui.phase = "waiting" /\ In("initialized") /\ DocumentsIndexed
    /\ ~In("rag_workflow")
    /\ Show("waiting", IF session.kb_manager.vector_store = None
                       THEN NoneTypeError ELSE BuildError)
    /\ UNCHANGED <<session, elsewhere>>

\* Execute Query: with an empty query box nothing happens; otherwise the
\* workflow is built on the manager's store unless one is cached, then
\* execute is called
QueryStart(query) ==
    /\ ui.phase = "waiting" /\ In("initialized") /\ DocumentsIndexed
    /\ IF query = ""
       THEN /\ Show("waiting", "")
            /\ UNCHANGED session
       ELSE /\ runs < MaxRuns
            /\ In("rag_workflow") \/ session.kb_manager.vector_store # None
            /\ session' =
                  IF In("rag_workflow") THEN session
                  ELSE [session EXCEPT
                           !.keys = @ \cup {"rag_workflow"},
                           !.rag_workflow =
                               [vector_store |-> session.kb_manager.vector_store,
                                built |-> TRUE]]
            /\ ui' = [ui EXCEPT !.phase = "query", !.shown = "", !.query = query]
    /\ UNCHANGED elsewhere

\* mutant: an execution that ended in an error is listed under its own label
route_name_Error(r) ==
    IF r = "vectorstore" THEN "Vector Store"
    ELSE IF r = "error" THEN "Error" ELSE "Wikipedia"

route_name(r) == IF r = "vectorstore" THEN "Vector Store" ELSE "Wikipedia"

\* the entry of the query history, with the fields the analytics read
HistoryEntry(query, res) ==
    [query |-> query, route |-> route_name(res.route),
     execution_time |-> res.execution_time]

\* execute returned: the result is shown and one entry is appended to the
\* query history; the locals of the handler are gone when the run ends
ShowResult ==
    /\ ui.phase = "query" /\ pc = "returned"
    /\ session' = [session EXCEPT
                      !.keys = @ \cup {"query_history"},
                      !.query_history = Append(@, HistoryEntry(ui.query, result))]
    /\ ui' = [ui EXCEPT !.phase = "waiting", !.shown = QueryResults,
                        !.query = "", !.returned = @ + 1]
    /\ pc' = "idle"
    /\ inflight' = "none"
    /\ state' = [question |-> None]
    /\ result' = InitialResult
    /\ prompt' = NoPrompt
    /\ replies' = NoReplies
    /\ events' = <<>>
    /\ start_time' = 0
    /\ UNCHANGED <<now, runs, other, backend>>

\* render_analytics_tab: the counters it shows
render_analytics_tab(ss) ==
    LET history == IF "query_history" \in ss.keys THEN ss.query_history ELSE <<>>
    IN  [total |-> Len(history),
         vector_count |->
             Cardinality({i \in 1..Len(history) : history[i].route = "Vector Store"}),
         wiki_count |->
             Cardinality({i \in 1..Len(history) : history[i].route = "Wikipedia"})]

NextSession ==
    \/ \E ok \in BOOLEAN : Run(ok)
    \/ \E ok \in BOOLEAN : ClickReset(ok)
    \/ IndexNoUrls
    \/ \E chunks \in Chunks, timestamp \in IndexTimes : IndexSucceeds(chunks, timestamp)
    \/ \E stage \in IndexStages : IndexFails(stage)
    \/ QueryBuildFails
    \/ \E query \in SessionQueries : QueryStart(query)
    \/ ui.phase = "query" /\ pc = "idle" /\ Execute(ui.query)
    \/ RouteCall
    \/ \E reply \in RouterReplies : RouteReturn(reply)
    \/ RouteRaise
    \/ RetrieveCall
    \/ \E documents \in RetrieverReplies : RetrieveReturn(documents)
    \/ RetrieveRaise
    \/ WikiCall
    \/ \E docs \in WikiTexts : WikiReturn(docs)
    \/ WikiRaise
    \/ GenerateCall
    \/ \E response \in GenTexts : GenerateReturn(response)
    \/ GenerateRaise
    \/ Finish
    \/ ShowResult

SpecSession == Init /\ [][NextSession]_vars

----------------------------------------------------------------------------
(* Properties of one execution *)

Has(ev) == \E i \in 1..Len(events) : events[i] = ev

Count(ev) == Cardinality({i \in 1..Len(events) : events[i] = ev})

Before(ev, i) == \E j \in 1..(i - 1) : events[j] = ev

RetrievalNodes == {"retrieve", "wiki_search"}

Nodes == {"route_question", "retrieve", "wiki_search", "generate"}

ResultKeys == {"route", "documents", "generation", "execution_time"}

ErrorText(e) == <<"Error executing query: ", e>>

\* C1: in every execution at most one of the retrieval stages retrieve and
\* wiki_search runs, an execution that reaches generation has run exactly one
\* of them, and the context handed to generation comes from one provider only.
C1_ExactlyOneRetrieval ==
    /\ ~(Has(<<"enter", "retrieve">>) /\ Has(<<"enter", "wiki_search">>))
    /\ ~(Has(<<"call", "retriever">>) /\ Has(<<"call", "wiki">>))
    /\ Count(<<"enter", "retrieve">>) + Count(<<"enter", "wiki_search">>) <= 1
    /\ Has(<<"enter", "generate">>) =>
          /\ Count(<<"exit", "retrieve">>) + Count(<<"exit", "wiki_search">>) = 1
          /\ \/ /\ Has(<<"exit", "retrieve">>)
                /\ state.documents = replies.retriever
             \/ /\ Has(<<"exit", "wiki_search">>)
                /\ Len(state.documents) = 1
                /\ state.documents[1] \in
                      {Document(replies.wiki), WikiPlaceholder(WikiError)}

C1_Witness ==
    /\ pc = "returned"
    /\ Has(<<"exit", "generate">>)
    /\ Has(<<"exit", "wiki_search">>)
    /\ ~Has(<<"enter", "retrieve">>)

\* C2: the stages of one execution are strictly ordered and never overlap: a
\* retrieval stage starts only after classification returned a route, the
\* generation stage starts only after a retrieval stage returned its bundle,
\* and a stage starts only when the stage before it is over.
C2_StagesOrdered ==
    /\ \A i \in 1..Len(events) :
          /\ (events[i][1] = "enter" /\ events[i][2] \in RetrievalNodes) =>
                Before(<<"exit", "route_question">>, i)
          /\ events[i] = <<"enter", "generate">> =>
                \E n \in RetrievalNodes :
                    /\ Before(<<"exit", n>>, i)
                    /\ "documents" \in DOMAIN state
          /\ events[i][1] = "enter" =>
                \A j \in 1..(i - 1) :
                    events[j][1] = "enter" =>
                        \E k \in (j + 1)..(i - 1) : events[k] = <<"exit", events[j][2]>>
    /\ inflight \in {"retriever", "wiki"} => Has(<<"exit", "route_question">>)
    /\ inflight = "generation_chain" =>
          \E n \in RetrievalNodes : Has(<<"exit", n>>)

C2_Witness ==
    /\ inflight = "generation_chain"
    /\ Has(<<"exit", "retrieve">>)
    /\ Has(<<"exit", "route_question">>)

\* C3: execute never lets an exception out: whatever the classifier, the
\* retriever, the Wikipedia lookup and the generation call do, it returns a
\* result with exactly the keys route, documents, generation, execution_time.
C3_NeverRaises ==
    /\ pc # "raised"
    /\ DOMAIN result = ResultKeys
    /\ pc = "returned" =>
          /\ result.execution_time = now - start_time
          /\ result.execution_time >= 0

C3_Witness ==
    /\ pc = "returned"
    /\ Has(<<"raise", "question_router">>)
    /\ result.route = "error"

ClassifierFailed == Has(<<"raise", "question_router">>)

RetrieverFailed == Has(<<"raise", "retriever">>)

WikiFailed == Has(<<"raise", "wiki">>)

GenerationFailed == Has(<<"raise", "generation_chain">>)

GenerationReturned == Has(<<"return", "generation_chain">>)

NoStageAfterClassification ==
    /\ \A n \in RetrievalNodes \cup {"generate"} : ~Has(<<"enter", n>>)
    /\ \A p \in {"retriever", "wiki", "generation_chain"} : ~Has(<<"call", p>>)

ClassifierErrors == {RouterError, ValidationError, AttributeError}

PlaceholderContext ==
    <<"Document ", "1", ":\n",
      "Wikipedia search returned no results for this query. Error: ", WikiError>>

\* C6 as stated: when the Wikipedia lookup fails the context is the single
\* placeholder passage, generation is invoked with it, and the result is a
\* non-error result whose answer is the generation output.
C6_Original ==
    (pc = "returned" /\ WikiFailed) =>
        /\ result.documents = <<WikiPlaceholder(WikiError)>>
        /\ Has(<<"call", "generation_chain">>)
        /\ prompt.context = PlaceholderContext
        /\ result.route # "error"
        /\ GenerationReturned
        /\ result.generation = replies.generation_chain

\* C6 amended: when the Wikipedia lookup fails the context is the single
\* placeholder passage and generation is invoked with it; if the generation
\* call returns, the result is a non-error result with route "wikipedia"
\* whose answer is the generation output; if the generation call fails too,
\* the result is an error result that still holds the placeholder.
C6_WikiFailureAbsorbed ==
    (pc = "returned" /\ WikiFailed) =>
        /\ result.documents = <<WikiPlaceholder(WikiError)>>
        /\ Has(<<"call", "generation_chain">>)
        /\ prompt.context = PlaceholderContext
        /\ prompt.question = state.question
        /\ GenerationReturned =>
              /\ result.route = "wikipedia"
              /\ result.generation = replies.generation_chain
              /\ result.generation \in GenTexts
        /\ ~GenerationReturned =>
              /\ GenerationFailed
              /\ result.route = "error"
              /\ result.generation = ErrorText(GenerationError)

C6_Witness ==
    /\ pc = "returned"
    /\ WikiFailed
    /\ GenerationReturned
    /\ result.route = "wikipedia"

RoutedPrimary ==
    Has(<<"exit", "route_question">>) /\ replies.question_router = "vectorstore"

RoutedSecondary ==
    Has(<<"exit", "route_question">>) /\ replies.question_router = "wiki_search"

\* C7 as stated: for every question the classifier routes to the primary
\* store, the result has route "vectorstore" and its documents are exactly
\* the passages the retriever returned, with nothing from Wikipedia.
C7_Original ==
    (pc = "returned" /\ RoutedPrimary) =>
        /\ result.route = "vectorstore"
        /\ result.documents = replies.retriever
        /\ ~Has(<<"call", "wiki">>)

\* C7 amended: for every question the classifier routes to the primary
\* store, the documents of the result are exactly the passages the retriever
\* returned (none when it failed), with nothing from Wikipedia; the route is
\* "vectorstore" when the retriever and the generation call both returned,
\* and "error" when either of them failed.
C7_PrimaryRoute ==
    (pc = "returned" /\ RoutedPrimary) =>
        /\ Has(<<"call", "retriever">>)
        /\ ~Has(<<"call", "wiki">>)
        /\ result.documents = replies.retriever
        /\ RetrieverFailed => result.documents = <<>>
        /\ (Has(<<"return", "retriever">>) /\ GenerationReturned) =>
              result.route = "vectorstore"
        /\ (RetrieverFailed \/ GenerationFailed) => result.route = "error"
        /\ result.route \in {"vectorstore", "error"}

C7_Witness ==
    /\ pc = "returned"
    /\ RoutedPrimary
    /\ result.route = "vectorstore"
    /\ Len(result.documents) = K

RECURSIVE SplitFrom(_, _, _, _)
SplitFrom(text, sep, i, piece) ==
    IF i > Len(text) THEN <<piece>>
    ELSE IF text[i] = sep THEN <<piece>> \o SplitFrom(text, sep, i + 1, <<>>)
    ELSE SplitFrom(text, sep, i + 1, Append(piece, text[i]))

Split(text, sep) == IF text = <<>> THEN <<>> ELSE SplitFrom(text, sep, 1, <<>>)

Min(a, b) == IF a < b THEN a ELSE b

Ordinals == <<"1", "2", "3", "4", "5">>

\* C9: for a bundle of n passages the context generate_response hands to the
\* generation chain is made of exactly min(n, 5) blocks separated by blank
\* lines, block i being "Document i:" followed by the i-th passage of the
\* bundle; no passage after the fifth is in it.
C9_ContextFirstFive ==
    Has(<<"call", "generation_chain">>) =>
        LET bundle == state.documents
            blocks == Split(prompt.context, "\n\n")
        IN  /\ Len(blocks) = Min(Len(bundle), 5)
            /\ Len(blocks) <= 5
            /\ \A i \in 1..Len(blocks) :
                  blocks[i] = <<"Document ", Ordinals[i], ":\n">> \o bundle[i].page_content
            /\ prompt.question = state.question

C9_Witness ==
    /\ Has(<<"call", "generation_chain">>)
    /\ Len(state.documents) = 6
    /\ Len(Split(prompt.context, "\n\n")) = 5
    /\ state.documents[6] # state.documents[5]

RouterReplied == replies.question_router # NoReply

\* C10: whenever the LLM's routing reply carries a value outside the enum
\* {vectorstore, wiki_search}, classification does not fail and the question
\* goes to the vector-store route, never to Wikipedia.
C10_Original ==
    (RouterReplied /\ replies.question_router \notin RouteQueryLiteral) =>
        /\ ~ClassifierFailed
        /\ Has(<<"exit", "route_question">>)
        /\ ~Has(<<"enter", "wiki_search">>)
        /\ pc = "retrieve" \/ Has(<<"enter", "retrieve">>)

Providers == {"question_router", "retriever", "wiki", "generation_chain"}

\* both chains of the router run on the same ChatGroq client
LLMCalls == Count(<<"call", "question_router">>) + Count(<<"call", "generation_chain">>)

\* C11 as stated: in one execution the vector-store retriever, the Wikipedia
\* lookup and the LLM are each invoked at most once, the classifier's call
\* counting as an invocation of the LLM.
C11_Original ==
    /\ Count(<<"call", "retriever">>) <= 1
    /\ Count(<<"call", "wiki">>) <= 1
    /\ LLMCalls <= 1

\* C11 amended: in one execution the vector-store retriever and the Wikipedia
\* lookup are each invoked at most once, and the LLM at most twice: once by
\* the classifier and at most once by the generation stage.
C11_ProviderCalls ==
    /\ Count(<<"call", "retriever">>) <= 1
    /\ Count(<<"call", "wiki">>) <= 1
    /\ Count(<<"call", "question_router">>) <= 1
    /\ Count(<<"call", "generation_chain">>) <= 1
    /\ LLMCalls <= 2
    /\ Has(<<"call", "generation_chain">>) => LLMCalls = 2

C11_Witness ==
    /\ pc = "returned"
    /\ LLMCalls = 2
    /\ Count(<<"call", "retriever">>) = 1

\* C12: the graph has no loop-back or retry edge: in one execution each stage
\* is entered at most once, and a provider call that failed is never
\* attempted again.
C12_NoRetry ==
    /\ \A n \in Nodes : Count(<<"enter", n>>) <= 1
    /\ \A p \in Providers :
          \A i \in 1..Len(events) :
              events[i] = <<"raise", p>> =>
                  /\ Count(<<"call", p>>) = 1
                  /\ \A j \in (i + 1)..Len(events) : events[j] # <<"call", p>>
    /\ ClassifierFailed => ~Has(<<"call", "generation_chain">>)

C12_Witness ==
    /\ pc = "returned"
    /\ RetrieverFailed
    /\ Count(<<"call", "retriever">>) = 1

\* C13: a failure of the vector-store retriever on the primary route is
\* fatal: no placeholder passage is substituted, the generation stage is not
\* invoked, and the result carries the error as its answer.
C13_RetrieverFailureFatal ==
    RetrieverFailed =>
        /\ ~Has(<<"enter", "generate">>)
        /\ ~Has(<<"call", "generation_chain">>)
        /\ "documents" \notin DOMAIN state
        /\ pc \in {"END", "returned"}
        /\ result.documents = <<>>
        /\ result.generation = ErrorText(RetrieverError)
        /\ result.route = "error"

C13_Witness ==
    /\ pc = "returned"
    /\ RetrieverFailed
    /\ RoutedPrimary
    /\ result.generation = ErrorText(RetrieverError)

\* C16 as stated: whenever the generation stage is invoked, the bundle it
\* receives holds at least one passage and comes from the retrieval stage of
\* the chosen route.
C16_Original ==
    Has(<<"call", "generation_chain">>) =>
        /\ Len(state.documents) >= 1
        /\ RoutedPrimary => state.documents = replies.retriever
        /\ RoutedSecondary => Len(state.documents) = 1

\* C16 amended: whenever the generation stage is invoked, the bundle it
\* receives comes from the retrieval stage of the chosen route: on the
\* secondary route it is the one Wikipedia passage or the placeholder, on the
\* primary route it is whatever the retriever returned, which may be no
\* passage at all (the context is then empty).
C16_BundleFromChosenRoute ==
    Has(<<"call", "generation_chain">>) =>
        /\ RoutedPrimary \/ RoutedSecondary
        /\ RoutedPrimary =>
              /\ Has(<<"return", "retriever">>)
              /\ state.documents = replies.retriever
              /\ state.route = "vectorstore"
        /\ RoutedSecondary =>
              /\ Has(<<"exit", "wiki_search">>)
              /\ Len(state.documents) = 1
              /\ state.documents[1] =
                    IF WikiFailed THEN WikiPlaceholder(WikiError)
                    ELSE Document(replies.wiki)
              /\ state.route = "wikipedia"
        /\ (prompt.context = <<>>) <=> (state.documents = <<>>)

C16_Witness ==
    /\ Has(<<"call", "generation_chain">>)
    /\ RoutedPrimary
    /\ state.documents = <<>>
    /\ prompt.context = <<>>

Running == pc \notin {"idle", "returned"}

\* C15: every execution that starts eventually reaches END and returns a
\* result, provided each provider call it makes returns or fails; it cannot
\* stop or stay forever anywhere else.
C15_Terminates == Running ~> (pc = "returned" /\ DOMAIN result = ResultKeys)

C15_Witness ==
    /\ pc = "returned"
    /\ Has(<<"exit", "generate">>)
    /\ result.route = "vectorstore"

\* what an execute call returns when it runs alone, as a function of the
\* outcomes of its own provider calls
AloneResult(e) ==
    LET has(ev) == \E i \in 1..Len(e.events) : e.events[i] = ev
        classifierError ==
            IF e.replies.question_router = NoReply THEN RouterError
            ELSE IF e.replies.question_router = None THEN AttributeError
            ELSE ValidationError
        documents ==
            IF has(<<"return", "retriever">>) THEN e.replies.retriever
            ELSE IF has(<<"raise", "wiki">>) THEN <<WikiPlaceholder(WikiError)>>
            ELSE <<Document(e.replies.wiki)>>
        label ==
            IF e.replies.question_router = "wiki_search" THEN "wikipedia"
            ELSE "vectorstore"
    IN  IF has(<<"raise", "question_router">>) THEN
            [route |-> "error", documents |-> <<>>,
             generation |-> ErrorText(classifierError)]
        ELSE IF has(<<"raise", "retriever">>) THEN
            [route |-> "error", documents |-> <<>>,
             generation |-> ErrorText(RetrieverError)]
        ELSE IF has(<<"raise", "generation_chain">>) THEN
            [route |-> "error", documents |-> documents,
             generation |-> ErrorText(GenerationError)]
        ELSE
            [route |-> label, documents |-> documents,
             generation |-> e.replies.generation_chain]

ReturnsAsAlone(e) ==
    e.pc = "returned" =>
        /\ [route |-> e.result.route, documents |-> e.result.documents,
            generation |-> e.result.generation] = AloneResult(e)
        /\ e.prompt.question \in {None, e.state.question}
        /\ e.prompt.question = e.state.question =>
              e.prompt.context = FormatContext(e.result.documents)

\* C14: two executions of the same workflow object that interleave in any
\* order each return the result they would return when run alone: the route,
\* documents and generation of each depend only on its own question and its
\* own provider responses.
C14_ExecutionsIndependent ==
    /\ ReturnsAsAlone(Locals)
    /\ ReturnsAsAlone(other)

C14_Witness ==
    /\ pc = "returned"
    /\ other.pc = "returned"
    /\ result.route = "vectorstore"
    /\ other.result.route = "wikipedia"
    /\ state.question # other.state.question
    /\ start_time < other.start_time + other.result.execution_time
    /\ other.start_time < start_time + result.execution_time

----------------------------------------------------------------------------
(* Properties of POST /api/v1/query *)

Contains(text, pattern) ==
    \E i \in 0..(Len(text) - Len(pattern)) :
        SubSeq(text, i + 1, i + Len(pattern)) = pattern

Answered(x) == x.status = 200

AskedSource(x) == IF x.request.source = Absent THEN "auto" ELSE x.request.source

OptionalFieldsValid(json) ==
    /\ json.source \in {Absent, "auto", "vector", "wikipedia", "web"}
    /\ json.options.given =>
          /\ json.options.top_k \in 1..20
          /\ json.options.temperature \in 0..20

C18_MockReply ==
    \A i \in 1..Len(api) :
        Answered(api[i]) =>
            /\ DOMAIN api[i].body = {"id", "response", "sources", "metrics", "routing_reason"}
            /\ api[i].body.response =
                  "This is a deterministic mock answer from IMSKOS scaffold."
            /\ Contains(api[i].body.routing_reason, <<"m", "o", "c", "k">>)

C18_Witness ==
    /\ Len(api) = 1
    /\ Answered(api[1])
    /\ api[1].request.source = Absent
    /\ ~api[1].request.options.given
    /\ Contains(api[1].body.routing_reason, <<"m", "o", "c", "k">>)

\* C19: the routing_reason of the reply to a valid request names the source
\* the request asked for (auto when it gives none) and no other source, and a
\* request with valid options is accepted.
C19_ReasonNamesSource ==
    \A i \in 1..Len(api) :
        /\ Answered(api[i]) =>
              /\ Contains(api[i].body.routing_reason, SourceChars[AskedSource(api[i])])
              /\ \A t \in QuerySourceValues \ {AskedSource(api[i])} :
                    ~Contains(api[i].body.routing_reason, SourceChars[t])
              /\ api[i].request.source = Absent =>
                    Contains(api[i].body.routing_reason, <<"a", "u", "t", "o">>)
        /\ (/\ api[i].request.options.given
            /\ api[i].request.query \in 1..2000
            /\ OptionalFieldsValid(api[i].request)) => Answered(api[i])

C19_Witness ==
    /\ Len(api) = 1
    /\ Answered(api[1])
    /\ api[1].request.source = "vector"
    /\ api[1].request.options = [given |-> TRUE, top_k |-> 10, temperature |-> 5, hyde |-> TRUE]
    /\ Contains(api[1].body.routing_reason, <<"v", "e", "c", "t", "o", "r">>)

\* C20: a request whose query is empty or longer than 2000 characters is
\* rejected with status 422 and gets no mock response; every request whose
\* query has 1 to 2000 characters and whose optional fields are valid is
\* answered with status 200.
C20_QueryValidation ==
    \A i \in 1..Len(api) :
        LET n == api[i].request.query
        IN  /\ (n = 0 \/ n > 2000) =>
                  /\ api[i].status = 422
                  /\ "response" \notin DOMAIN api[i].body
            /\ (n >= 1 /\ n <= 2000 /\ OptionalFieldsValid(api[i].request)) =>
                  /\ api[i].status = 200
                  /\ "response" \in DOMAIN api[i].body

C20_Witness ==
    /\ Len(api) = 2
    /\ api[1].request.query = 0 /\ api[1].status = 422
    /\ api[2].request.query = 2000 /\ api[2].status = 200

----------------------------------------------------------------------------
(* Properties of GET /health *)

Services == {"supabase", "astra_db", "groq", "huggingface", "redis", "s3"}

\* the credentials each service needs
Required ==
    [supabase |-> {"supabase_url", "supabase_anon_key"},
     astra_db |-> {"astra_db_application_token", "astra_db_id"},
     groq |-> {"groq_api_key"},
     huggingface |-> {"huggingface_api_key"},
     redis |-> {"upstash_redis_rest_url", "upstash_redis_rest_token"},
     s3 |-> {"s3_endpoint", "s3_access_key", "s3_secret_key"}]

\* a credential that is not set, or set to nothing
Missing(field) == settings[field] = None \/ settings[field] = ""

MockExactlyWhenMissing(reply) ==
    /\ DOMAIN reply.mock_mode = Services
    /\ \A service \in Services :
          reply.mock_mode[service] <=> (\E field \in Required[service] : Missing(field))

----------------------------------------------------------------------------
(* Properties of the returned result *)

AllStagesSucceeded ==
    /\ pc = "returned"
    /\ GenerationReturned
    /\ ~ClassifierFailed /\ ~RetrieverFailed /\ ~GenerationFailed

\* C23: when every stage of an execution succeeds, the generation field of
\* the returned result is the text the generation provider returned, as it
\* is, and the documents field is the context bundle that was handed to
\* generation.
C23_GenerationUnmodified ==
    AllStagesSucceeded =>
        /\ result.generation = replies.generation_chain
        /\ result.generation \in GenTexts
        /\ result.documents = state.documents
        /\ prompt.context = FormatContext(result.documents)
        /\ prompt.question = state.question

C23_Witness ==
    /\ AllStagesSucceeded
    /\ result.generation = <<"answer-2">>
    /\ Len(result.documents) = 2
    /\ result.route = "vectorstore"

\* C24: the route of every result execute returns is "vectorstore",
\* "wikipedia" or "error": it is never left at its initial None and never
\* "unknown", whatever the stages did.
C24_RouteValues ==
    pc = "returned" =>
        /\ result.route \in {"vectorstore", "wikipedia", "error"}
        /\ result.route # None
        /\ result.route # "unknown"

C24_Witness ==
    /\ pc = "returned"
    /\ replies.question_router = None
    /\ NoStageAfterClassification
    /\ result.route = "error"

\* C25: the returned route is "error" exactly when the classifier, the
\* vector-store retriever or the generation call raised; the generation
\* field then starts with "Error executing query: "; a failed Wikipedia
\* lookup alone never gives the route "error".
C25_ErrorRoute ==
    pc = "returned" =>
        /\ result.route = "error" <=>
              (ClassifierFailed \/ RetrieverFailed \/ GenerationFailed)
        /\ result.route = "error" =>
              /\ Len(result.generation) >= 1
              /\ result.generation[1] = "Error executing query: "
        /\ (WikiFailed /\ ~GenerationFailed) => result.route = "wikipedia"

C25_Witness ==
    /\ pc = "returned"
    /\ WikiFailed
    /\ GenerationReturned
    /\ result.route = "wikipedia"
    /\ result.documents = <<WikiPlaceholder(WikiError)>>

----------------------------------------------------------------------------
(* Properties of the Streamlit session *)

History == IF In("query_history") THEN session.query_history ELSE <<>>

StoreCreated == In("kb_manager") /\ session.kb_manager.vector_store # None

IndexKeys == {"documents_indexed", "num_documents", "index_timestamp"}

\* C26: in every state of the session documents_indexed being true implies
\* that the manager's vector store has been created; a query is executed,
\* and the workflow built, only while documents_indexed is true, so the
\* workflow is never built on a missing vector store.
C26_IndexedImpliesStore ==
    /\ DocumentsIndexed => StoreCreated
    /\ (ui.phase = "query" \/ pc # "idle") =>
          /\ DocumentsIndexed
          /\ In("rag_workflow")
    /\ In("rag_workflow") =>
          /\ session.rag_workflow.built
          /\ session.rag_workflow.vector_store # None
    /\ ui.shown # NoneTypeError

C26_Witness ==
    /\ ui.phase = "query"
    /\ pc = "generate" /\ inflight = "generation_chain"
    /\ DocumentsIndexed
    /\ session.rag_workflow.vector_store = TableName

\* C27: a Reset System click, from any state of the session, clears the
\* session state: once the session is initialized again documents_indexed is
\* false, the query history is empty and no workflow is cached, and no query
\* is executed until documents are indexed again.
C27_ResetClears ==
    [][/\ (\E ok \in BOOLEAN : ClickReset(ok)) =>
             /\ session'.keys \subseteq {"kb_manager", "router", "initialized",
                                         "documents_indexed"}
             /\ ~DocumentsIndexed'
             /\ History' = <<>>
             /\ render_analytics_tab(session').total = 0
             /\ ~In("rag_workflow")'
             /\ ~StoreCreated'
             /\ In("initialized")' =>
                   (In("documents_indexed")' /\ ~session'.documents_indexed)
       /\ (ui.phase # "query" /\ ui'.phase = "query") => DocumentsIndexed
       /\ (~DocumentsIndexed /\ DocumentsIndexed') => ui'.shown = IndexOk
      ]_vars

C27_Witness ==
    /\ runs = 2
    /\ ui.phase = "waiting"
    /\ ui.shown = InitOk
    /\ session = initialize_system(SessionCleared, TRUE)

C29_FailedIndexingFrame ==
    [][(\E stage \in IndexStages : IndexFails(stage)) =>
          /\ session'.keys \cap IndexKeys = session.keys \cap IndexKeys
          /\ session'.documents_indexed = session.documents_indexed
          /\ session'.num_documents = session.num_documents
          /\ session'.index_timestamp = session.index_timestamp
          /\ DocumentsIndexed' <=> DocumentsIndexed
          /\ ui'.shown = IndexFailed
      ]_vars

C29_Witness ==
    /\ ui.phase = "waiting"
    /\ ui.shown = IndexFailed
    /\ DocumentsIndexed
    /\ session.num_documents = 12
    /\ session.index_timestamp = "2026-01-01 11:00:00"

====
